---- MODULE Spec2Model ----
(***************************************************************************)
(* fdmonbench: a load generator (iogen.c) ping-pongs one message at a time *)
(* over num_fds socket pairs with num_engines engine instances of one      *)
(* backend (select.c, poll.c, epoll.c, io_uring.c, threads).  The main     *)
(* thread runs iogen_init, create_engines, iogen_run, destroy_engines and  *)
(* iogen_cleanup in sequence; every engine instance owns one worker thread *)
(* (num_fds worker threads for the threads backend); SIGALRM sets the stop *)
(* flag asynchronously.                                                    *)
(*                                                                         *)
(* Descriptors: channel i (1..num_fds) is socket pair i; inside an engine  *)
(* index 0 is the instance's private eventfd, as in select.c's fds[0].     *)
(* A byte on a channel is recorded by the number of the generator message  *)
(* it belongs to (0: a byte of a calloc'ed buffer never filled by a read). *)
(***************************************************************************)
EXTENDS Integers, Sequences, FiniteSets, Bags, TLC

\* ---------------------------------------------------------------- bounds
MaxFds == 2
MaxEngines == 2
MaxMsgSize == 2
MaxIos == 2
MaxLoad == 4
MaxFairLoad == 2
MaxRingFds == 66

\* ------------------------------------------------------ program constants
FD_SETSIZE == 1024
\* Descriptors 0, 1 and 2 are in use when main starts.
FirstFd == Cardinality({"stdin", "stdout", "stderr"})

\* The engine_ops tables the backends define, by their .name.
EngineNames == {"select", "poll", "epoll", "io_uring", "threads"}

\* const struct engine_ops *engines[] of parse_options, without its NULL end.
engines == <<"epoll", "poll", "select">>

\* The values of --engine tried: every name of a table, and one of none.
EngineArgs == EngineNames \cup {"kqueue"}

\* unsigned long and size_t have 64 bits, int has 32.  A 64-bit value is kept
\* as four 16-bit limbs, most significant first.
Limb == 65536
ULONG_MAX == <<Limb - 1, Limb - 1, Limb - 1, Limb - 1>>

\* v * 10 + d in 64 bits: the limbs of the result and the carry out of them.
MulAdd10(v, d) ==
    LET t4 == v[4] * 10 + d
        t3 == v[3] * 10 + t4 \div Limb
        t2 == v[2] * 10 + t3 \div Limb
        t1 == v[1] * 10 + t2 \div Limb
    IN  [val |-> <<t1 % Limb, t2 % Limb, t3 % Limb, t4 % Limb>>, carry |-> t1 \div Limb]

\* strtoul(optarg, NULL, 10) of a string of characters, each a digit 0..9 or
\* (-1) a character that is no digit: the value of the leading digits, 0
\* without any, ULONG_MAX when the value does not fit.
RECURSIVE strtoul_from(_, _, _, _)
strtoul_from(str, j, acc, over) ==
    IF j > Len(str) \/ str[j] < 0
    THEN IF over THEN ULONG_MAX ELSE acc
    ELSE LET n == MulAdd10(acc, str[j])
         IN  strtoul_from(str, j + 1, n.val, over \/ n.carry > 0)

strtoul(str) == strtoul_from(str, 1, <<0, 0, 0, 0>>, FALSE)

\* ret > (unsigned long)LONG_MAX || ret == 0
InvalidNumber(ret) == ret[1] >= Limb \div 2 \/ ret = <<0, 0, 0, 0>>

\* An unsigned long assigned to an int keeps its low 32 bits, read as a
\* signed number.
ToInt(ret) ==
    IF ret[3] >= Limb \div 2 THEN (ret[3] - Limb) * Limb + ret[4]
    ELSE ret[3] * Limb + ret[4]

\* An unsigned long assigned to a size_t keeps its value; the model holds it
\* as a number, and is given only message sizes below 2^31.
ToSizeT(ret) == ret[3] * Limb + ret[4]

\* The numeric option values tried: "0", "1", "2147483648", "4294967296",
\* "4294967297", "9223372036854775808", "18446744073709551616" and "x".
NumberArgs ==
    { <<0>>, <<1>>, <<2, 1, 4, 7, 4, 8, 3, 6, 4, 8>>, <<4, 2, 9, 4, 9, 6, 7, 2, 9, 6>>,
      <<4, 2, 9, 4, 9, 6, 7, 2, 9, 7>>,
      <<9, 2, 2, 3, 3, 7, 2, 0, 3, 6, 8, 5, 4, 7, 7, 5, 8, 0, 8>>,
      <<1, 8, 4, 4, 6, 7, 4, 4, 0, 7, 3, 7, 0, 9, 5, 5, 1, 6, 1, 6>>, <<-1>> }

\* The values of --msg-size tried: "0", "1", "2147483647",
\* "9223372036854775808" and "x".
MsgSizeArgs ==
    { <<0>>, <<1>>, <<2, 1, 4, 7, 4, 8, 3, 6, 4, 7>>,
      <<9, 2, 2, 3, 3, 7, 2, 0, 3, 6, 8, 5, 4, 7, 7, 5, 8, 0, 8>>, <<-1>> }

\* An option that is not on the command line.
Absent == <<>>

\* No option given.
NoArgs ==
    [engine |-> "", exclusive |-> "", num_engines |-> Absent, num_fds |-> Absent,
     msg_size |-> Absent, duration_secs |-> Absent]

\* The command lines tried.
CommandLines ==
    [engine : EngineArgs \cup {""}, exclusive : {"", "0", "1", "2"},
     num_engines : NumberArgs \cup {Absent}, num_fds : NumberArgs \cup {Absent},
     msg_size : MsgSizeArgs \cup {Absent}, duration_secs : NumberArgs \cup {Absent}]

\* for (i = 0; engines[i]; i++) if (strcmp(optarg, engines[i]->name) == 0)
\* break;  The index the loop stops at; Len(engines) + 1 is the NULL entry.
RECURSIVE engines_lookup(_, _)
engines_lookup(optarg, i) ==
    IF i > Len(engines) \/ engines[i] = optarg THEN i
    ELSE engines_lookup(optarg, i + 1)

VARIABLES
    opts,      \* struct options
    m,         \* main thread: pc, instance k, thread i, caller dir / ret
    errmsg,    \* char *errmsg of main / create_engines
    galloc,    \* live allocations and descriptors of iogen and main
    live,      \* live resources of engine instances: <<k, name>>
    acq,       \* per instance, resources in order of acquisition
    rel,       \* per instance, resources in order of release
    fdno,      \* per instance, descriptor numbers of eventfd and epfd/ring
    efdval,    \* per instance, eventfd counter
    sem,       \* per instance, startup_semaphore value
    startup_fd,\* per instance, threads_engine.startup_fd
    est,       \* per instance, where it is in its life ("ready": create returned it)
    w,         \* worker threads
    ebuf,      \* per instance, msgbuf
    uring,     \* per instance, io_uring submission/completion state
    toEng,     \* per channel, bytes written by the generator, unread
    toGen,     \* per channel, bytes written by engines, unread
    nonblock,  \* per channel, O_NONBLOCK of the engine-side endpoint
    g,         \* struct iogen and the locals of iogen_run
    stop,      \* sigalrm_triggered
    alarm,     \* a SIGALRM is pending delivery (alarm armed, unblocked)
    hist       \* history: counters observed by the properties

vars == <<opts, m, errmsg, galloc, live, acq, rel, fdno, efdval, sem,
          startup_fd, est, w, ebuf, uring, toEng, toGen, nonblock, g,
          stop, alarm, hist>>

EngIds == 1..MaxEngines
ThrIds == 1..MaxFds

\* ---------------------------------------------------------------- helpers
Min(a, b) == IF a < b THEN a ELSE b

RECURSIVE Reverse(_)
Reverse(s) == IF s = <<>> THEN <<>> ELSE Append(Reverse(Tail(s)), Head(s))

RECURSIVE SeqToSet(_)
SeqToSet(s) == IF s = <<>> THEN {} ELSE {Head(s)} \cup SeqToSet(Tail(s))

NoDup(s) == \A a, b \in 1..Len(s) : a # b => s[a] # s[b]

Zeros(n) == [j \in 1..n |-> 0]

DropFirst(s, n) == SubSeq(s, n + 1, Len(s))

\* Number of worker threads of one instance.
NumThreads(o) == IF o.engine = "threads" THEN o.num_fds ELSE 1

\* ------------------------------------------------------------ descriptors
\* m.base is the lowest descriptor number free when main starts: FirstFd,
\* or more when the process inherited open descriptors.  iogen_init's
\* socketpair calls get the lowest free numbers: pair i is
\* engine_fds[i] = base + 2(i-1), iogen_fds[i] = base + 2(i-1) + 1.
EngineFd(i) == m.base + 2 * (i - 1)
IogenFd(i) == m.base + 2 * (i - 1) + 1

\* The bases explored for the select engine besides FirstFd: those that put
\* a data descriptor or an eventfd at or above FD_SETSIZE.
HighBases == {FD_SETSIZE - 3, FD_SETSIZE - 1, FD_SETSIZE}

\* if (fd >= FD_SETSIZE) fails the create: the descriptor fits in an fd_set.
AnyFd(fd) == TRUE
InFdSet(fd) == fd < FD_SETSIZE

FdKinds == {"eventfd", "epfd", "ring"}

\* Descriptor numbers open in the process (beyond stdin, stdout, stderr).
OpenFds ==
    {EngineFd(i) : i \in {j \in 1..MaxFds : <<"engine_fd", j>> \in galloc}}
    \cup {IogenFd(i) : i \in {j \in 1..MaxFds : <<"iogen_fd", j>> \in galloc}}
    \cup {fdno[x[1]][x[2][1]] : x \in {y \in live : y[2][1] \in FdKinds}}

\* The kernel hands out the lowest descriptor number not in use.
LowestFree(used) == CHOOSE n \in m.base..(m.base + 2 * MaxFds + 2 * MaxEngines + 2) :
                        n \notin used /\ \A j \in m.base..(n - 1) : j \in used

\* A resource of an engine instance: <<name, index>>; index is the thread
\* number for a worker thread and 0 otherwise.
R(name) == <<name, 0>>
Thread(t) == <<"thread", t>>

\* ------------------------------------------------------- create: the plans
\* One step of a create function: the call made (or the check), the resource
\* it yields, whether a check passes, the label jumped to on failure
\* ("return": a direct return) and the error message.
St(op, res, ok, onfail, err) ==
    [op |-> op, res |-> res, ok |-> ok, onfail |-> onfail, err |-> err]

select_create(o, newfd) ==
    << St("check", "", ~o.exclusive, "return",
          "select engine does not support exclusive=1"),
       St("check", "", \A i \in 1..o.num_fds : InFdSet(EngineFd(i)), "return",
          "Maximum number of fds exceeded for select engine"),
       St("malloc", "se", TRUE, "return", "Out of memory"),
       St("calloc", "msgbuf", TRUE, "err_free_se", "Out of memory"),
       St("malloc", "fds", TRUE, "err_free_msgbuf", "Out of memory"),
       St("eventfd", "eventfd", TRUE, "err_free_fds", "Eventfd creation failed"),
       St("check", "", InFdSet(newfd), "err_close_eventfd",
          "Maximum number of fds exceeded by eventfd"),
       St("sem_init", "sem", TRUE, "err_close_eventfd",
          "Failed to create startup semaphore"),
       St("pthread_create", "thread", TRUE, "err_sem_destroy", "pthread_create failed"),
       St("sem_wait", "", TRUE, "err_pthread_join", "sem_wait failed") >>

select_unwind_skip_fds ==
    << <<"err_pthread_join", "thread">>, <<"err_sem_destroy", "sem">>,
       <<"err_close_eventfd", "eventfd">>, <<"err_free_fds", "msgbuf">>,
       <<"err_free_msgbuf", "msgbuf">>, <<"err_free_se", "se">> >>

select_unwind ==
    << <<"err_pthread_join", "thread">>, <<"err_sem_destroy", "sem">>,
       <<"err_close_eventfd", "eventfd">>, <<"err_free_fds", "fds">>,
       <<"err_free_msgbuf", "msgbuf">>, <<"err_free_se", "se">> >>

poll_create(o, newfd) ==
    << St("malloc", "pe", TRUE, "return", "Out of memory"),
       St("calloc", "msgbuf", TRUE, "err_free_se", "Out of memory"),
       St("calloc", "pollfds", TRUE, "err_free_msgbuf", "Out of memory"),
       St("eventfd", "eventfd", TRUE, "err_free_pollfds", "Eventfd creation failed"),
       St("sem_init", "sem", TRUE, "err_close_eventfd",
          "Failed to create startup semaphore"),
       St("pthread_create", "thread", TRUE, "err_sem_destroy", "pthread_create failed"),
       St("sem_wait", "", TRUE, "err_pthread_join", "sem_wait failed") >>

poll_unwind ==
    << <<"err_pthread_join", "thread">>, <<"err_sem_destroy", "sem">>,
       <<"err_close_eventfd", "eventfd">>, <<"err_free_pollfds", "pollfds">>,
       <<"err_free_msgbuf", "msgbuf">>, <<"err_free_se", "pe">> >>

epoll_do_create(o, newfd) ==
    << St("malloc", "pe", TRUE, "return", "Out of memory"),
       St("calloc", "msgbuf", TRUE, "err_free_se", "Out of memory"),
       St("epoll_create1", "epfd", TRUE, "err_free_msgbuf", "epoll_create1 failed"),
       St("epoll_ctl", "", TRUE, "err_close_epfd", "epoll_ctl failed"),
       St("eventfd", "eventfd", TRUE, "err_close_epfd", "Eventfd creation failed"),
       St("epoll_ctl", "", TRUE, "err_close_eventfd", "epoll_ctl failed"),
       St("sem_init", "sem", TRUE, "err_close_eventfd",
          "Failed to create startup semaphore"),
       St("pthread_create", "thread", TRUE, "err_sem_destroy", "pthread_create failed"),
       St("sem_wait", "", TRUE, "err_pthread_join", "sem_wait failed") >>

epoll_unwind ==
    << <<"err_pthread_join", "thread">>, <<"err_sem_destroy", "sem">>,
       <<"err_close_eventfd", "eventfd">>, <<"err_close_epfd", "epfd">>,
       <<"err_free_msgbuf", "msgbuf">>, <<"err_free_se", "pe">> >>

io_uring_create(o, newfd) ==
    << St("malloc", "pe", TRUE, "return", "Out of memory"),
       St("calloc", "msgbuf", TRUE, "err_free_se", "Out of memory"),
       St("io_uring_queue_init", "ring", TRUE, "err_free_msgbuf",
          "io_uring_queue_init failed (do you need to increase ulimit -l?)"),
       St("eventfd", "eventfd", TRUE, "err_queue_exit", "Eventfd creation failed"),
       St("sem_init", "sem", TRUE, "err_close_eventfd",
          "Failed to create startup semaphore"),
       St("pthread_create", "thread", TRUE, "err_sem_destroy", "pthread_create failed"),
       St("sem_wait", "", TRUE, "err_pthread_join", "sem_wait failed") >>

io_uring_unwind ==
    << <<"err_pthread_join", "thread">>, <<"err_sem_destroy", "sem">>,
       <<"err_close_eventfd", "eventfd">>, <<"err_queue_exit", "ring">>,
       <<"err_free_msgbuf", "msgbuf">>, <<"err_free_se", "pe">> >>

\* threads_create spawns and waits once per descriptor; the two steps stand
\* for every iteration of its loop.
threads_create(o, newfd) ==
    << St("malloc", "te", TRUE, "return", "Out of memory"),
       St("calloc", "msgbuf", TRUE, "err_free_se", "Out of memory"),
       St("malloc", "threads", TRUE, "err_free_msgbuf", "Out of memory"),
       St("sem_init", "sem", TRUE, "err_free_threads",
          "Failed to create startup semaphore"),
       St("pthread_create", "thread", TRUE, "err_cancel_threads", "pthread_create failed"),
       St("sem_wait", "", TRUE, "err_cancel_threads", "sem_wait failed") >>

threads_unwind ==
    << <<"err_sem_destroy", "sem">>, <<"err_free_threads", "threads">>,
       <<"err_free_msgbuf", "msgbuf">>, <<"err_free_se", "te">> >>

\* engine_ops.create of the configured engine.
CreatePlan(o, newfd) ==
    CASE o.engine = "select" -> select_create(o, newfd)
      [] o.engine = "poll" -> poll_create(o, newfd)
      [] o.engine = "epoll" -> epoll_do_create(o, newfd)
      [] o.engine = "io_uring" -> io_uring_create(o, newfd)
      [] o.engine = "threads" -> threads_create(o, newfd)

UnwindChain(e) ==
    CASE e = "select" -> select_unwind
      [] e = "poll" -> poll_unwind
      [] e = "epoll" -> epoll_unwind
      [] e = "io_uring" -> io_uring_unwind
      [] e = "threads" -> threads_unwind

\* What destroy releases after its threads are joined, in order.
select_destroy == <<"sem", "eventfd", "fds", "msgbuf", "se">>
poll_destroy == <<"sem", "eventfd", "pollfds", "msgbuf", "pe">>
epoll_destroy_keep_epfd == <<"sem", "eventfd", "msgbuf", "pe">>
epoll_destroy == <<"sem", "eventfd", "epfd", "msgbuf", "pe">>
io_uring_destroy == <<"sem", "eventfd", "ring", "msgbuf", "pe">>
threads_destroy == <<"sem", "threads", "msgbuf", "te">>

DestroyReleases(e) ==
    CASE e = "select" -> select_destroy
      [] e = "poll" -> poll_destroy
      [] e = "epoll" -> epoll_destroy
      [] e = "io_uring" -> io_uring_destroy
      [] e = "threads" -> threads_destroy

\* engine_ops.supports_exclusive
supports_exclusive(e) == e \in {"epoll", "io_uring"}

SpawnIdx(plan) == CHOOSE j \in 1..Len(plan) : plan[j].op = "pthread_create"
WaitIdx(plan) == SpawnIdx(plan) + 1

\* The steps of a plan an outside failure can hit before the first spawn.
EnvSteps(plan) == {j \in 1..(SpawnIdx(plan) - 1) : plan[j].op # "check"}

\* First step that fails, given the step f the environment fails (0: none).
FailAt(plan, f) ==
    LET bad == {j \in 1..(SpawnIdx(plan) - 1) :
                   (plan[j].op = "check" /\ ~plan[j].ok) \/ j = f}
    IN IF bad = {} THEN 0 ELSE CHOOSE j \in bad : \A x \in bad : j <= x

\* Resources the steps 1..n acquire, in order.
RECURSIVE Acquired(_, _)
Acquired(plan, n) ==
    IF n = 0 THEN <<>>
    ELSE IF plan[n].res = "" THEN Acquired(plan, n - 1)
    ELSE Append(Acquired(plan, n - 1), R(plan[n].res))

\* Resources released by a jump to label: the chain from the label on.
RECURSIVE UnwindFrom(_, _)
UnwindFrom(chain, label) ==
    IF chain = <<>> \/ label = "return" THEN <<>>
    ELSE IF Head(chain)[1] = label
         THEN [j \in 1..Len(chain) |-> R(chain[j][2])]
         ELSE UnwindFrom(Tail(chain), label)

Tagged(k, s) == {<<k, r>> : r \in SeqToSet(s)}

\* ------------------------------------------------------------------- state
NoWorker == [pc |-> "none", fd |-> 0, evs |-> <<>>, ret |-> 0, n |-> 0,
             wr |-> 0, cancel |-> FALSE, waited |-> FALSE, joined |-> FALSE]

\* A ring: the poll requests queued in the submission queue, the bag of those
\* armed in the kernel, and the completions not yet consumed; each is named
\* by its user_data, the descriptor.
NoRing == [sq |-> <<>>, armed |-> EmptyBag, cq |-> <<>>]

\* The bag of the elements of a sequence.
BagOfSeq(q) ==
    [x \in {q[j] : j \in 1..Len(q)} |-> Cardinality({j \in 1..Len(q) : q[j] = x})]

\* The configurations explored: every engine, with or without exclusive,
\* and the sizes whose product is at most MaxLoad.
Options ==
    {o \in [engine : EngineNames, num_engines : 1..MaxEngines, num_fds : 1..MaxFds,
            msg_size : 1..MaxMsgSize, exclusive : BOOLEAN, duration_secs : {30}] :
        o.num_engines * o.num_fds * o.msg_size <= MaxLoad}

\* The default option values of parse_options.
DefaultOptions ==
    [engine |-> "select", num_engines |-> 1, num_fds |-> 1, msg_size |-> 1,
     exclusive |-> FALSE, duration_secs |-> 30]

\* Nothing is allocated, no instance exists, no message was sent.
InitRest ==
    /\ errmsg = ""
    /\ galloc = {}
    /\ live = {}
    /\ acq = [k \in EngIds |-> <<>>]
    /\ rel = [k \in EngIds |-> <<>>]
    /\ fdno = [k \in EngIds |-> [eventfd |-> 0, epfd |-> 0, ring |-> 0]]
    /\ efdval = [k \in EngIds |-> 0]
    /\ sem = [k \in EngIds |-> 0]
    /\ startup_fd = [k \in EngIds |-> 0]
    /\ est = [k \in EngIds |-> "none"]
    /\ w = [k \in EngIds |-> [t \in ThrIds |-> NoWorker]]
    /\ ebuf = [k \in EngIds |-> <<>>]
    /\ uring = [k \in EngIds |-> NoRing]
    /\ toEng = [i \in 1..MaxFds |-> <<>>]
    /\ toGen = [i \in 1..MaxFds |-> <<>>]
    /\ nonblock = [i \in 1..MaxFds |-> FALSE]
    /\ g = [fd |-> 1, num_ios |-> 0, ret |-> 0, wr |-> 0, intr |-> FALSE,
            reply |-> <<>>, last |-> 0]
    /\ stop = FALSE
    /\ alarm = FALSE
    /\ hist = [sent |-> 0, echoes |-> 0, replies |-> 0, closes |-> [i \in 1..MaxFds |-> 0]]

\* A run starts in parse_options with an --engine argument and no other
\* option, or past it with a struct options that names any engine_ops table
\* and any of the sizes explored, and for select any of the descriptor bases
\* explored.
Init ==
    /\ \/ /\ opts = DefaultOptions
          /\ \E a \in EngineArgs :
                m = [pc |-> "parse_options", k |-> 0, i |-> 0, dir |-> "", ret |-> "",
                     argv |-> [NoArgs EXCEPT !.engine = a], base |-> FirstFd]
       \/ /\ opts \in Options
          /\ \E b \in IF opts.engine = "select" THEN {FirstFd} \cup HighBases
                       ELSE {FirstFd} :
                m = [pc |-> "iogen_init", k |-> 0, i |-> 0, dir |-> "", ret |-> "",
                     argv |-> NoArgs, base |-> b]
    /\ InitRest

worker_vars == <<w, ebuf, uring, toEng, toGen, efdval>>
engine_vars == <<live, acq, rel, fdno, sem, startup_fd, est>>
gen_vars == <<g, stop, alarm>>

\* --------------------------------------------------- parse_options (main)
\* The options of a command line that parse_options rejects, by message.
\* case OPTION_ENGINE: a name not found in engines[]; the numeric options: a
\* value that is 0 or above LONG_MAX; --exclusive: anything but "0" and "1".
Rejected(argv) ==
    {e \in {"Unknown engine"} :
        argv.engine # "" /\ engines_lookup(argv.engine, 1) > Len(engines)}
    \cup {e \in {"Invalid number of engines"} :
        argv.num_engines # Absent /\ InvalidNumber(strtoul(argv.num_engines))}
    \cup {e \in {"Invalid number of fds"} :
        argv.num_fds # Absent /\ InvalidNumber(strtoul(argv.num_fds))}
    \cup {e \in {"Invalid message size"} :
        argv.msg_size # Absent /\ InvalidNumber(strtoul(argv.msg_size))}
    \cup {e \in {"The value of exclusive must be 0 or 1"} :
        argv.exclusive \notin {"", "0", "1"}}
    \cup {e \in {"Invalid duration-secs value"} :
        argv.duration_secs # Absent /\ InvalidNumber(strtoul(argv.duration_secs))}

\* struct options after the getopt_long loop has taken every option: the
\* default values, overwritten by the options given.
Parsed(argv) ==
    [engine |-> IF argv.engine = "" THEN DefaultOptions.engine
                ELSE engines[engines_lookup(argv.engine, 1)],
     num_engines |-> IF argv.num_engines = Absent THEN DefaultOptions.num_engines
                     ELSE ToInt(strtoul(argv.num_engines)),
     num_fds |-> IF argv.num_fds = Absent THEN DefaultOptions.num_fds
                 ELSE ToInt(strtoul(argv.num_fds)),
     msg_size |-> IF argv.msg_size = Absent THEN DefaultOptions.msg_size
                  ELSE ToSizeT(strtoul(argv.msg_size)),
     exclusive |-> argv.exclusive = "1",
     duration_secs |-> IF argv.duration_secs = Absent THEN DefaultOptions.duration_secs
                       ELSE ToInt(strtoul(argv.duration_secs))]

\* parse_options: the first option it rejects makes it print a message and
\* return false, and main returns EXIT_FAILURE; so does exclusive=1 with an
\* engine that does not support it.  Otherwise it returns true.
parse_options ==
    /\ m.pc = "parse_options"
    /\ IF Rejected(m.argv) # {}
       THEN /\ \E e \in Rejected(m.argv) :
                  m' = [m EXCEPT !.pc = "exit_failure", !.ret = e]
            /\ opts' = opts
       ELSE IF Parsed(m.argv).exclusive /\ ~supports_exclusive(Parsed(m.argv).engine)
       THEN /\ m' = [m EXCEPT !.pc = "exit_failure",
                              !.ret = "engine does not support exclusive=1"]
            /\ opts' = opts
       ELSE /\ opts' = Parsed(m.argv)
            /\ m' = [m EXCEPT !.pc = "iogen_init"]
    /\ UNCHANGED <<errmsg, galloc, engine_vars, worker_vars, nonblock, gen_vars, hist>>

\* ------------------------------------------------------ iogen_init (main)
\* The arrays and the buffer are allocated; the loop over the socket pairs
\* follows.  m.i is the loop variable i.
iogen_init ==
    /\ m.pc = "iogen_init"
    /\ \E ok \in BOOLEAN :
        IF ok
        THEN /\ galloc' = {<<"engine_fds", 0>>, <<"iogen_fds", 0>>, <<"msgbuf", 0>>}
             /\ m' = [m EXCEPT !.pc = "socketpair", !.i = 0]
             /\ errmsg' = errmsg
        ELSE /\ galloc' = {}
             /\ errmsg' = "Out of memory"
             /\ m' = [m EXCEPT !.pc = "exit_failure"]
    /\ UNCHANGED <<opts, engine_vars, worker_vars, nonblock, gen_vars, hist>>

\* One iteration of the loop of iogen_init.  socketpair succeeds: pair i is
\* stored in engine_fds[i] and iogen_fds[i] (the model counts pairs from 1)
\* and its engine side made non-blocking.  socketpair fails with i > 0:
\* while (i-- > 0) closes pair i - 1, frees the arrays and returns the
\* message from inside its first pass.  socketpair fails with i = 0: the
\* while loop is not entered, i is -1, and the function goes on to the
\* stores below the if.
socketpair ==
    /\ m.pc = "socketpair"
    /\ \E ok \in BOOLEAN :
        IF ok
        THEN /\ galloc' = galloc \cup {<<"engine_fd", m.i + 1>>, <<"iogen_fd", m.i + 1>>}
             /\ nonblock' = [nonblock EXCEPT ![m.i + 1] = TRUE]
             /\ m' = IF m.i + 1 < opts.num_fds THEN [m EXCEPT !.i = m.i + 1]
                     ELSE [m EXCEPT !.pc = "create_engines", !.i = 0]
             /\ UNCHANGED <<errmsg, hist>>
        ELSE IF m.i > 0
        THEN /\ galloc' = galloc \ {<<"engine_fd", m.i>>, <<"iogen_fd", m.i>>,
                                     <<"engine_fds", 0>>, <<"iogen_fds", 0>>, <<"msgbuf", 0>>}
             /\ hist' = [hist EXCEPT !.closes[m.i] = @ + 1]
             /\ errmsg' = "socketpair failed\n"
             /\ m' = [m EXCEPT !.pc = "exit_failure", !.i = m.i - 1]
             /\ nonblock' = nonblock
        ELSE /\ m' = [m EXCEPT !.pc = "store_fds", !.i = -1, !.ret = "socketpair failed"]
             /\ UNCHANGED <<galloc, nonblock, errmsg, hist>>
    /\ UNCHANGED <<opts, engine_vars, worker_vars, gen_vars>>

\* g->engine_fds[i] = fds[0]; g->iogen_fds[i] = fds[1]; fcntl(...) with
\* i = -1 and fds[] never filled in: a write before the start of both arrays
\* and an fcntl on an indeterminate descriptor.  Either the process dies of
\* it, or nothing shows and the loop goes on with i = 0.
store_fds ==
    /\ m.pc = "store_fds"
    /\ \/ m' = [m EXCEPT !.pc = "socketpair", !.i = 0, !.ret = ""]
       \/ m' = [m EXCEPT !.pc = "abort"]
    /\ UNCHANGED <<opts, errmsg, galloc, engine_vars, worker_vars, nonblock, gen_vars,
                   hist>>

\* iogen_cleanup closes both descriptors of every pair and frees the arrays.
iogen_cleanup ==
    /\ m.pc \in {"iogen_cleanup", "err_iogen_cleanup"}
    /\ galloc' = galloc \ ({<<"engine_fds", 0>>, <<"iogen_fds", 0>>, <<"msgbuf", 0>>}
                           \cup {<<"engine_fd", i>> : i \in 1..opts.num_fds}
                           \cup {<<"iogen_fd", i>> : i \in 1..opts.num_fds})
    /\ m' = [m EXCEPT !.pc = IF m.pc = "iogen_cleanup" THEN "exit_success"
                                                      ELSE "exit_failure"]
    /\ hist' = [hist EXCEPT !.closes = [i \in 1..MaxFds |->
                                          IF i <= opts.num_fds THEN @[i] + 1 ELSE @[i]]]
    /\ UNCHANGED <<opts, errmsg, engine_vars, worker_vars, nonblock, gen_vars>>

\* --------------------------------------------------------- create_engines
\* The array of instances is allocated, then the instances are created one
\* after the other.
create_engines ==
    /\ m.pc = "create_engines"
    /\ \E ok \in BOOLEAN :
        IF ok
        THEN /\ galloc' = galloc \cup {<<"engines", 0>>}
             /\ m' = [m EXCEPT !.pc = "create", !.k = 1]
             /\ errmsg' = errmsg
        ELSE /\ galloc' = galloc
             /\ errmsg' = "Out of memory"
             /\ m' = [m EXCEPT !.pc = "err_iogen_cleanup"]
    /\ UNCHANGED <<opts, engine_vars, worker_vars, nonblock, gen_vars, hist>>

\* Descriptor numbers the descriptors of a new instance get, in the order
\* the create function opens them.
NewFds(e, used) ==
    LET a == LowestFree(used)
        b == LowestFree(used \cup {a})
    IN CASE e \in {"select", "poll"} -> [eventfd |-> a, epfd |-> 0, ring |-> 0]
         [] e = "epoll" -> [eventfd |-> b, epfd |-> a, ring |-> 0]
         [] e = "io_uring" -> [eventfd |-> b, epfd |-> 0, ring |-> a]
         [] e = "threads" -> [eventfd |-> 0, epfd |-> 0, ring |-> 0]

\* io_uring_create queues a poll request per data descriptor and one for the
\* eventfd, then io_uring_submit hands them all to the kernel.
RingAfterCreate(o) == [NoRing EXCEPT !.armed = SetToBag(0..o.num_fds)]

\* engine_ops.create up to its first pthread_create: every step before it is
\* taken by the main thread alone.  f is the step the environment fails.
create ==
    /\ m.pc = "create"
    /\ LET k == m.k
           nf == NewFds(opts.engine, OpenFds)
           plan == CreatePlan(opts, nf.eventfd)
       IN \E f \in EnvSteps(plan) \cup {0} :
            LET j == FailAt(plan, f)
                got == Acquired(plan, IF j = 0 THEN SpawnIdx(plan) - 1 ELSE j - 1)
                undo == IF j = 0 THEN <<>>
                        ELSE UnwindFrom(UnwindChain(opts.engine), plan[j].onfail)
            IN /\ acq' = [acq EXCEPT ![k] = got]
               /\ rel' = [rel EXCEPT ![k] = undo]
               /\ live' = (live \cup Tagged(k, got)) \ Tagged(k, undo)
               /\ fdno' = [fdno EXCEPT ![k] = nf]
               /\ sem' = [sem EXCEPT ![k] = 0]
               /\ ebuf' = [ebuf EXCEPT ![k] = Zeros(opts.msg_size)]
               /\ uring' = [uring EXCEPT ![k] =
                              IF j = 0 /\ opts.engine = "io_uring"
                              THEN RingAfterCreate(opts) ELSE NoRing]
               /\ errmsg' = IF j = 0 THEN errmsg ELSE plan[j].err
               /\ m' = IF j = 0 THEN [m EXCEPT !.pc = "spawn", !.i = 1]
                       ELSE [m EXCEPT !.pc = "create_failed"]
               /\ est' = [est EXCEPT ![k] = IF j = 0 THEN "creating" ELSE "failed"]
    /\ UNCHANGED <<opts, galloc, efdval, startup_fd, w, toEng, toGen,
                   nonblock, gen_vars, hist>>

\* pthread_create of worker thread m.i.  threads_create first stashes the
\* descriptor in startup_fd and clears O_NONBLOCK on it.
spawn ==
    /\ m.pc = "spawn"
    /\ LET k == m.k
           plan == CreatePlan(opts, fdno[k].eventfd)
           step == plan[SpawnIdx(plan)]
           thr == opts.engine = "threads"
       IN /\ startup_fd' = IF thr THEN [startup_fd EXCEPT ![k] = m.i] ELSE startup_fd
          /\ nonblock' = IF thr THEN [nonblock EXCEPT ![m.i] = FALSE] ELSE nonblock
          /\ \E ok \in BOOLEAN :
              IF ok
              THEN /\ w' = [w EXCEPT ![k][m.i] = [NoWorker EXCEPT !.pc = "start"]]
                   /\ acq' = [acq EXCEPT ![k] = Append(@, Thread(m.i))]
                   /\ live' = live \cup {<<k, Thread(m.i)>>}
                   /\ m' = [m EXCEPT !.pc = "sem_wait"]
                   /\ UNCHANGED <<rel, errmsg, est>>
              ELSE /\ errmsg' = step.err
                   /\ w' = w
                   /\ acq' = acq
                   /\ IF thr
                      THEN \* err_cancel_threads: while (i-- > 0)
                           /\ m' = IF m.i > 1
                                   THEN [m EXCEPT !.pc = "cancel", !.i = m.i - 1,
                                                  !.dir = "create_err"]
                                   ELSE [m EXCEPT !.pc = "unwind"]
                           /\ UNCHANGED <<rel, live, est>>
                      ELSE LET undo == UnwindFrom(UnwindChain(opts.engine), step.onfail)
                           IN /\ rel' = [rel EXCEPT ![k] = undo]
                              /\ live' = live \ Tagged(k, undo)
                              /\ m' = [m EXCEPT !.pc = "create_failed"]
                              /\ est' = [est EXCEPT ![k] = "failed"]
    /\ UNCHANGED <<opts, galloc, fdno, efdval, sem, ebuf, uring, toEng, toGen,
                   gen_vars, hist>>

\* sem_wait returns 0 only by taking a post: the value must be positive.
SemTakenNoWait(v) == TRUE
SemTaken(v) == v > 0

\* sem_wait on the startup semaphore.  SIGALRM is blocked in main at this
\* point, so the EINTR retry never runs; any other failure takes the error
\* path, which joins the thread just spawned.
sem_wait ==
    /\ m.pc = "sem_wait"
    /\ LET k == m.k
       IN \/ /\ SemTaken(sem[k])
             /\ sem' = [sem EXCEPT ![k] = @ - 1]
             /\ IF opts.engine = "threads" /\ m.i < opts.num_fds
                THEN /\ m' = [m EXCEPT !.pc = "spawn", !.i = m.i + 1]
                     /\ est' = est
                ELSE /\ m' = [m EXCEPT !.pc = "created"]
                     /\ est' = [est EXCEPT ![k] = "ready"]
             /\ errmsg' = errmsg
          \/ /\ errmsg' = CreatePlan(opts, fdno[k].eventfd)[WaitIdx(CreatePlan(opts, fdno[k].eventfd))].err
             /\ m' = [m EXCEPT !.pc = "join", !.dir = "sem_wait_err"]
             /\ UNCHANGED <<sem, est>>
    /\ UNCHANGED <<opts, galloc, live, acq, rel, fdno, startup_fd, worker_vars,
                   nonblock, gen_vars, hist>>

\* pthread_cancel(te->threads[m.i]) of threads_destroy and of the error path
\* of threads_create.
cancel ==
    /\ m.pc = "cancel"
    /\ w' = [w EXCEPT ![m.k][m.i].cancel = TRUE]
    /\ m' = [m EXCEPT !.pc = "join"]
    /\ UNCHANGED <<opts, errmsg, galloc, engine_vars, ebuf, uring, toEng, toGen,
                   efdval, nonblock, gen_vars, hist>>

\* Resources released once the last thread is joined, by the function that
\* joined it.
AfterJoin(dir) ==
    CASE dir = "destroy" -> [j \in 1..Len(DestroyReleases(opts.engine)) |->
                               R(DestroyReleases(opts.engine)[j])]
      [] dir = "create_err" -> UnwindFrom(UnwindChain(opts.engine), "err_sem_destroy")
      [] dir = "sem_wait_err" -> UnwindFrom(UnwindChain(opts.engine), "err_sem_destroy")

\* Where the instance's function goes once its last thread is joined and its
\* resources are released.
Returned(dir) == IF dir = "destroy" THEN "destroyed" ELSE "create_failed"

\* pthread_join returns once the thread has terminated.
JoinReturnsAtOnce(k, t) == TRUE
JoinReturns(k, t) == w[k][t].pc = "exit"

\* pthread_join(thread m.i), and what follows the join of the last thread.
pthread_join ==
    /\ m.pc = "join"
    /\ JoinReturns(m.k, m.i)
    /\ LET k == m.k
           thr == opts.engine = "threads"
           \* threads_destroy walks the threads upwards; the error path of
           \* threads_create walks them downwards (while (i-- > 0)); after the
           \* join of a failed sem_wait it enters that loop at its test.
           more == IF ~thr THEN FALSE
                   ELSE IF m.dir = "destroy" THEN m.i < opts.num_fds
                   ELSE m.i > 1
           next == IF m.dir = "destroy" THEN m.i + 1 ELSE m.i - 1
           undo == AfterJoin(m.dir)
       IN /\ w' = [w EXCEPT ![k][m.i].joined = TRUE]
          /\ IF more
             THEN /\ rel' = [rel EXCEPT ![k] = Append(@, Thread(m.i))]
                  /\ live' = live \ {<<k, Thread(m.i)>>}
                  /\ m' = [m EXCEPT !.pc = "cancel", !.i = next,
                                    !.dir = IF m.dir = "sem_wait_err"
                                            THEN "create_err" ELSE m.dir]
                  /\ est' = est
             ELSE /\ rel' = [rel EXCEPT ![k] = Append(@, Thread(m.i)) \o undo]
                  /\ live' = live \ ({<<k, Thread(m.i)>>} \cup Tagged(k, undo))
                  /\ m' = [m EXCEPT !.pc = Returned(m.dir)]
                  /\ est' = [est EXCEPT ![k] = IF m.dir = "destroy" THEN "destroyed"
                                                                   ELSE "failed"]
    /\ UNCHANGED <<opts, errmsg, galloc, acq, fdno, sem, startup_fd, ebuf,
                   uring, toEng, toGen, efdval, nonblock, gen_vars, hist>>

\* threads_create with no thread left to cancel: err_sem_destroy onwards.
unwind ==
    /\ m.pc = "unwind"
    /\ LET undo == UnwindFrom(UnwindChain(opts.engine), "err_sem_destroy")
       IN /\ rel' = [rel EXCEPT ![m.k] = @ \o undo]
          /\ live' = live \ Tagged(m.k, undo)
    /\ m' = [m EXCEPT !.pc = "create_failed"]
    /\ est' = [est EXCEPT ![m.k] = "failed"]
    /\ UNCHANGED <<opts, errmsg, galloc, acq, fdno, sem, startup_fd,
                   worker_vars, nonblock, gen_vars, hist>>

\* create returned a handle: create_engines goes on with the next instance
\* and main, after the last one, unblocks SIGALRM and arms the alarm.
created ==
    /\ m.pc = "created"
    /\ IF m.k < opts.num_engines
       THEN /\ m' = [m EXCEPT !.pc = "create", !.k = m.k + 1]
            /\ alarm' = alarm
       ELSE /\ m' = [m EXCEPT !.pc = "g_while"]
            /\ alarm' = TRUE
    /\ UNCHANGED <<opts, errmsg, galloc, engine_vars, worker_vars, nonblock, g, stop,
                   hist>>

\* create returned NULL: create_engines destroys the instances it has
\* created, last first, frees the array and returns NULL; main then runs
\* iogen_cleanup.
create_failed ==
    /\ m.pc = "create_failed"
    /\ IF m.k > 1
       THEN /\ m' = [m EXCEPT !.pc = "destroy", !.k = m.k - 1, !.dir = "ce_unwind"]
            /\ galloc' = galloc
       ELSE /\ m' = [m EXCEPT !.pc = "err_iogen_cleanup"]
            /\ galloc' = galloc \ {<<"engines", 0>>}
    /\ UNCHANGED <<opts, errmsg, engine_vars, worker_vars, nonblock, gen_vars, hist>>

\* ------------------------------------------------------------------ destroy
\* uint64_t val = 1; write(eventfd, &val, sizeof(val)) adds val to the counter.
EventfdUnwritten(v) == v
EventfdWrite(v) == v + 1

\* engine_ops.destroy, first step: the eventfd is written (select, poll,
\* epoll, io_uring) or the first thread is cancelled (threads).
destroy ==
    /\ m.pc = "destroy"
    /\ est[m.k] = "ready"
    /\ est' = [est EXCEPT ![m.k] = "destroying"]
    /\ IF opts.engine = "threads"
       THEN /\ efdval' = efdval
            /\ m' = [m EXCEPT !.pc = "cancel", !.i = 1, !.dir = "destroy", !.ret = m.dir]
       ELSE /\ efdval' = [efdval EXCEPT ![m.k] = EventfdWrite(@)]
            /\ m' = [m EXCEPT !.pc = "join", !.i = 1, !.dir = "destroy", !.ret = m.dir]
    /\ UNCHANGED <<opts, errmsg, galloc, live, acq, rel, fdno, sem, startup_fd, w, ebuf,
                   uring, toEng, toGen, nonblock, gen_vars, hist>>

\* destroy returned: destroy_engines goes upwards and then frees the array;
\* the unwinding of create_engines goes downwards.
destroyed ==
    /\ m.pc = "destroyed"
    /\ IF m.ret = "ce_unwind"
       THEN IF m.k > 1
            THEN /\ m' = [m EXCEPT !.pc = "destroy", !.k = m.k - 1, !.dir = "ce_unwind"]
                 /\ galloc' = galloc
            ELSE /\ m' = [m EXCEPT !.pc = "err_iogen_cleanup"]
                 /\ galloc' = galloc \ {<<"engines", 0>>}
       ELSE IF m.k < opts.num_engines
            THEN /\ m' = [m EXCEPT !.pc = "destroy", !.k = m.k + 1,
                                   !.dir = "destroy_engines"]
                 /\ galloc' = galloc
            ELSE /\ m' = [m EXCEPT !.pc = "iogen_cleanup"]
                 /\ galloc' = galloc \ {<<"engines", 0>>}
    /\ UNCHANGED <<opts, errmsg, engine_vars, worker_vars, nonblock, gen_vars, hist>>

\* ----------------------------------------------------------- worker threads
maxevents == 2
IoUringEntries == 64

\* Index 0 of an instance is its eventfd, 1..num_fds are the data descriptors.
Readable(k, x) == IF x = 0 THEN efdval[k] > 0 ELSE Len(toEng[x]) > 0

RECURSIVE Ascending(_)
Ascending(S) ==
    IF S = {} THEN <<>>
    ELSE LET x == CHOOSE a \in S : \A b \in S : a <= b
         IN <<x>> \o Ascending(S \ {x})

\* read(fd, msgbuf, msg_size) on a data descriptor: the bytes taken, at most
\* msg_size of what is there.  The bytes of msgbuf a read does not fill keep
\* what an earlier read left: they belong to no message in flight (0).
ReadLen(x) == Min(Len(toEng[x]), opts.msg_size)
BufAfterRead(buf, x) ==
    LET n == ReadLen(x)
    IN [j \in 1..Len(buf) |-> IF j <= n THEN toEng[x][j] ELSE 0]

\* threads_fd_thread: int fd = te->startup_fd
copy_startup_fd(k, t) ==
    /\ opts.engine = "threads"
    /\ w[k][t].pc = "start"
    /\ w' = [w EXCEPT ![k][t].pc = "copied", ![k][t].fd = startup_fd[k]]
    /\ UNCHANGED <<opts, m, errmsg, galloc, engine_vars, ebuf, uring, toEng, toGen,
                   efdval, nonblock, gen_vars, hist>>

\* Where a thread stands when it calls sem_post.
BeforePost(e) == IF e = "threads" THEN "copied" ELSE "start"

\* "Ready!": sem_post(&startup_semaphore), before the service loop.
sem_post(k, t) ==
    /\ w[k][t].pc = BeforePost(opts.engine)
    /\ sem' = [sem EXCEPT ![k] = @ + 1]
    /\ w' = [w EXCEPT ![k][t].pc = "posted"]
    /\ UNCHANGED <<opts, m, errmsg, galloc, live, acq, rel, fdno, startup_fd, est,
                   ebuf, uring, toEng, toGen, efdval, nonblock, gen_vars, hist>>

\* First call of the wait primitive: select, poll, epoll_wait,
\* io_uring_submit_and_wait or (threads) read.
enter_wait(k, t) ==
    /\ w[k][t].pc = "posted"
    /\ ~w[k][t].cancel
    /\ w' = [w EXCEPT ![k][t].pc = "wait", ![k][t].waited = TRUE]
    /\ UNCHANGED <<opts, m, errmsg, galloc, engine_vars, ebuf, uring, toEng, toGen,
                   efdval, nonblock, gen_vars, hist>>

\* select / poll return: every readable descriptor is reported, ret is their
\* number; the scan visits them in index order, the eventfd first.
ScanWait(k) ==
    /\ w[k][1].pc = "wait"
    /\ LET rdy == {x \in 0..opts.num_fds : Readable(k, x)}
       IN /\ rdy # {}
          /\ w' = [w EXCEPT ![k][1].pc = "scan", ![k][1].evs = Ascending(rdy),
                            ![k][1].ret = Cardinality(rdy)]
    /\ UNCHANGED <<opts, m, errmsg, galloc, engine_vars, ebuf, uring, toEng, toGen,
                   efdval, nonblock, gen_vars, hist>>

\* epoll_wait return: up to maxevents ready descriptors, in any order.  With
\* EPOLLEXCLUSIVE the kernel reports an event to one or more of the
\* instances, so any non-empty part of the ready set may be returned; without
\* it as many as fit.
EpollWait(k) ==
    /\ w[k][1].pc = "wait"
    /\ LET rdy == {x \in 0..opts.num_fds : Readable(k, x)}
       IN /\ rdy # {}
          /\ \E a \in rdy, b \in rdy :
               /\ ~opts.exclusive => (a # b \/ Cardinality(rdy) = 1)
               /\ w' = [w EXCEPT ![k][1].pc = "scan",
                                 ![k][1].evs = IF a = b THEN <<a>> ELSE <<a, b>>,
                                 ![k][1].ret = IF a = b THEN 1 ELSE maxevents]
    /\ UNCHANGED <<opts, m, errmsg, galloc, engine_vars, ebuf, uring, toEng, toGen,
                   efdval, nonblock, gen_vars, hist>>

\* if (read(...) <= 0) continue (select, poll, epoll; io_uring: goto requeue)
ReadSkipped(n) == n <= 0
\* threads_fd_thread: if (ret != te->msg_size) continue
ThreadReadSkipped(n) == n # opts.msg_size

\* The eventfd was read in full: "Stop thread", return NULL.
ControlReadIgnored(me) == [me EXCEPT !.pc = "scan", !.evs = <<>>, !.ret = 0]
AfterControlRead(me) == [me EXCEPT !.pc = "exit", !.evs = <<>>, !.ret = 0]

\* One reported descriptor of select, poll or epoll is handled: the eventfd
\* is read and the thread returns; a data descriptor is read and, unless the
\* read returned <= 0, echoed.  counted: the loop also stops at ret = 0.
ScanStep(k, counted) ==
    /\ w[k][1].pc = "scan"
    /\ LET me == w[k][1]
       IN IF me.evs = <<>> \/ (counted /\ me.ret = 0)
          THEN /\ w' = [w EXCEPT ![k][1].pc = "wait", ![k][1].evs = <<>>,
                                 ![k][1].ret = 0]
               /\ UNCHANGED <<efdval, toEng, ebuf>>
          ELSE LET x == Head(me.evs)
               IN IF x = 0
                  THEN IF efdval[k] > 0
                       THEN /\ efdval' = [efdval EXCEPT ![k] = 0]
                            /\ w' = [w EXCEPT ![k][1] = AfterControlRead(me)]
                            /\ UNCHANGED <<toEng, ebuf>>
                       ELSE /\ w' = [w EXCEPT ![k][1].evs = Tail(me.evs)]
                            /\ UNCHANGED <<efdval, toEng, ebuf>>
                  ELSE IF ReadSkipped(ReadLen(x))
                       THEN /\ w' = [w EXCEPT ![k][1].evs = Tail(me.evs)]
                            /\ UNCHANGED <<efdval, toEng, ebuf>>
                       ELSE /\ ebuf' = [ebuf EXCEPT ![k] = BufAfterRead(@, x)]
                            /\ toEng' = [toEng EXCEPT ![x] = DropFirst(@, ReadLen(x))]
                            /\ w' = [w EXCEPT ![k][1].pc = "echo", ![k][1].fd = x,
                                              ![k][1].n = ReadLen(x), ![k][1].wr = 0]
                            /\ efdval' = efdval
    /\ UNCHANGED <<opts, m, errmsg, galloc, engine_vars, uring, toGen, nonblock,
                   gen_vars, hist>>

\* io_uring_submit: every queued request is armed in the kernel.
io_uring_submit(r) == [r EXCEPT !.sq = <<>>, !.armed = r.armed (+) BagOfSeq(r.sq)]

\* The results io_uring_submit can have inside io_uring_add_poll_sqe: it is
\* called only with the submission queue full, and may then fail.
SubmitOutcomes(r) == IF Len(r.sq) >= IoUringEntries THEN BOOLEAN ELSE {TRUE}

\* io_uring_add_poll_sqe: a one-shot poll request for x is queued.  With the
\* submission queue full (io_uring_get_sqe returns NULL) the queued requests
\* are submitted first; if that fails (ok = FALSE) the function prints a
\* message and returns without queueing anything.
io_uring_add_poll_sqe(r, x, ok) ==
    IF Len(r.sq) < IoUringEntries THEN [r EXCEPT !.sq = Append(r.sq, x)]
    ELSE IF ok THEN [io_uring_submit(r) EXCEPT !.sq = <<x>>]
    ELSE r

\* The kernel completes an armed poll request whose descriptor is readable.
\* With EPOLLEXCLUSIVE in the poll mask one or more of the instances polling
\* a descriptor are woken; which ones is the kernel's choice.
io_uring_complete(k, x) ==
    /\ opts.engine = "io_uring"
    /\ <<k, R("ring")>> \in live
    /\ x <= opts.num_fds
    /\ BagIn(x, uring[k].armed)
    /\ Readable(k, x)
    /\ uring' = [uring EXCEPT ![k].armed = @ (-) SetToBag({x}), ![k].cq = Append(@, x)]
    /\ UNCHANGED <<opts, m, errmsg, galloc, engine_vars, w, ebuf, toEng, toGen,
                   efdval, nonblock, gen_vars, hist>>

\* io_uring_submit_and_wait(&ring, 1) returns with a completion to handle.
UringWait(k) ==
    /\ w[k][1].pc = "wait"
    /\ uring[k].cq # <<>>
    /\ w' = [w EXCEPT ![k][1].pc = "scan"]
    /\ UNCHANGED <<opts, m, errmsg, galloc, engine_vars, ebuf, uring, toEng, toGen,
                   efdval, nonblock, gen_vars, hist>>

\* io_uring_for_each_cqe: the oldest completion is handled; a failed read
\* goes to requeue, which advances the queue and queues a new poll request.
\* With no completion left the thread calls io_uring_submit_and_wait again,
\* which submits what was queued.
UringStep(k) ==
    /\ w[k][1].pc = "scan"
    /\ LET r == uring[k]
       IN IF r.cq = <<>>
          THEN /\ uring' = [uring EXCEPT ![k] = io_uring_submit(r)]
               /\ w' = [w EXCEPT ![k][1].pc = "wait"]
               /\ UNCHANGED <<efdval, toEng, ebuf>>
          ELSE \E ok \in SubmitOutcomes(r) :
               LET x == Head(r.cq)
                   requeued == io_uring_add_poll_sqe([r EXCEPT !.cq = Tail(r.cq)], x, ok)
               IN IF x = 0
                  THEN IF efdval[k] > 0
                       THEN /\ efdval' = [efdval EXCEPT ![k] = 0]
                            /\ w' = [w EXCEPT ![k][1] = AfterControlRead(@)]
                            /\ UNCHANGED <<uring, toEng, ebuf>>
                       ELSE /\ uring' = [uring EXCEPT ![k] = requeued]
                            /\ UNCHANGED <<w, efdval, toEng, ebuf>>
                  ELSE IF ReadSkipped(ReadLen(x))
                       THEN /\ uring' = [uring EXCEPT ![k] = requeued]
                            /\ UNCHANGED <<w, efdval, toEng, ebuf>>
                       ELSE /\ ebuf' = [ebuf EXCEPT ![k] = BufAfterRead(@, x)]
                            /\ toEng' = [toEng EXCEPT ![x] = DropFirst(@, ReadLen(x))]
                            /\ w' = [w EXCEPT ![k][1].pc = "echo", ![k][1].fd = x,
                                              ![k][1].n = ReadLen(x), ![k][1].wr = 0]
                            /\ UNCHANGED <<uring, efdval>>
    /\ UNCHANGED <<opts, m, errmsg, galloc, engine_vars, toGen, nonblock, gen_vars,
                   hist>>

\* threads_fd_thread: the blocking read returns with what is there; anything
\* but msg_size bytes is skipped.
ThreadRead(k, t) ==
    /\ w[k][t].pc = "wait"
    /\ LET x == w[k][t].fd
       IN /\ ReadLen(x) > 0
          /\ ebuf' = [ebuf EXCEPT ![k] = BufAfterRead(@, x)]
          /\ toEng' = [toEng EXCEPT ![x] = DropFirst(@, ReadLen(x))]
          /\ w' = [w EXCEPT ![k][t].n = ReadLen(x), ![k][t].wr = 0,
                            ![k][t].pc = IF ThreadReadSkipped(ReadLen(x))
                                         THEN "wait" ELSE "echo"]
    /\ UNCHANGED <<opts, m, errmsg, galloc, engine_vars, uring, toGen, efdval,
                   nonblock, gen_vars, hist>>

\* A cancelled thread ends at its next cancellation point: read or write.
ThreadCancelled(k, t) ==
    /\ w[k][t].cancel
    /\ w[k][t].pc \in {"posted", "wait", "echo"}
    /\ w' = [w EXCEPT ![k][t].pc = "exit", ![k][t].wr = 0, ![k][t].n = 0]
    /\ UNCHANGED <<opts, m, errmsg, galloc, engine_vars, ebuf, uring, toEng, toGen,
                   efdval, nonblock, gen_vars, hist>>

\* Where a worker goes after its echo, per engine.
AfterEcho(me) ==
    CASE opts.engine \in {"select", "poll"} ->
            [me EXCEPT !.pc = "scan", !.evs = Tail(me.evs), !.ret = me.ret - 1,
                       !.wr = 0, !.n = 0, !.fd = 0]
      [] opts.engine = "epoll" ->
            [me EXCEPT !.pc = "scan", !.evs = Tail(me.evs), !.wr = 0, !.n = 0, !.fd = 0]
      [] opts.engine = "io_uring" -> [me EXCEPT !.pc = "scan", !.wr = 0, !.n = 0, !.fd = 0]
      [] opts.engine = "threads" -> [me EXCEPT !.pc = "wait", !.wr = 0, !.n = 0]

\* write(fd, msgbuf, msg_size): the socket is a byte stream, so the kernel
\* may hand the bytes to the peer in several pieces; c is the size of the
\* next piece.  The return value is not looked at.  Once echoed, the bytes
\* of msgbuf belong to no message in flight (threads: the buffer is shared by
\* the threads of the instance and is left as it is).
echo(k, t) ==
    /\ w[k][t].pc = "echo"
    /\ LET me == w[k][t]
       IN \E c \in 1..(opts.msg_size - me.wr) :
            /\ toGen' = [toGen EXCEPT ![me.fd] = @ \o SubSeq(ebuf[k], me.wr + 1, me.wr + c)]
            /\ hist' = IF me.wr = 0 THEN [hist EXCEPT !.echoes = @ + 1] ELSE hist
            /\ IF me.wr + c = opts.msg_size
               THEN /\ w' = [w EXCEPT ![k][t] = AfterEcho(me)]
                    /\ IF opts.engine = "io_uring"
                       THEN \E ok \in SubmitOutcomes(uring[k]) :
                              uring' = [uring EXCEPT ![k] =
                                          io_uring_add_poll_sqe(
                                              [uring[k] EXCEPT !.cq = Tail(uring[k].cq)],
                                              me.fd, ok)]
                       ELSE uring' = uring
               ELSE /\ w' = [w EXCEPT ![k][t].wr = me.wr + c]
                    /\ uring' = uring
            /\ ebuf' = IF me.wr + c = opts.msg_size /\ opts.engine # "threads"
                       THEN [ebuf EXCEPT ![k] = Zeros(opts.msg_size)] ELSE ebuf
    /\ UNCHANGED <<opts, m, errmsg, galloc, engine_vars, toEng, efdval, nonblock,
                   gen_vars>>

select_thread(k) ==
    /\ opts.engine = "select"
    /\ (ScanWait(k) \/ ScanStep(k, TRUE))

poll_thread(k) ==
    /\ opts.engine = "poll"
    /\ (ScanWait(k) \/ ScanStep(k, TRUE))

epoll_thread(k) ==
    /\ opts.engine = "epoll"
    /\ (EpollWait(k) \/ ScanStep(k, FALSE))

io_uring_thread(k) ==
    /\ opts.engine = "io_uring"
    /\ (UringWait(k) \/ UringStep(k))

threads_fd_thread(k, t) ==
    /\ opts.engine = "threads"
    /\ (ThreadRead(k, t) \/ ThreadCancelled(k, t))

\* ---------------------------------------------------------------- iogen_run
\* while (!*stop)
g_while ==
    /\ m.pc = "g_while"
    /\ stop \/ hist.sent < MaxIos
    /\ m' = [m EXCEPT !.pc = IF stop THEN "g_done" ELSE "g_write_call"]
    /\ UNCHANGED <<opts, errmsg, galloc, engine_vars, worker_vars, nonblock, gen_vars,
                   hist>>

\* write(iogen_fds[fd], msgbuf, msg_size) is entered and the first piece of
\* the message reaches the peer; the call returns once all of it has.
g_write_call ==
    /\ m.pc = "g_write_call"
    /\ \E c \in 1..opts.msg_size :
         /\ toEng' = [toEng EXCEPT ![g.fd] = @ \o [j \in 1..c |-> hist.sent + 1]]
         /\ IF c = opts.msg_size
            THEN /\ g' = [g EXCEPT !.ret = c, !.wr = 0, !.last = g.fd]
                 /\ m' = [m EXCEPT !.pc = "g_wchk"]
            ELSE /\ g' = [g EXCEPT !.wr = c, !.last = g.fd]
                 /\ m' = [m EXCEPT !.pc = "g_write"]
    /\ hist' = [hist EXCEPT !.sent = @ + 1]
    /\ UNCHANGED <<opts, errmsg, galloc, engine_vars, w, ebuf, uring, toGen, efdval,
                   nonblock, stop, alarm>>

\* The write goes on with the next piece, or, interrupted by SIGALRM,
\* returns the number of bytes written so far.
g_write ==
    /\ m.pc = "g_write"
    /\ \/ \E c \in 1..(opts.msg_size - g.wr) :
            /\ toEng' = [toEng EXCEPT ![g.fd] = @ \o [j \in 1..c |-> hist.sent]]
            /\ IF g.wr + c = opts.msg_size
               THEN /\ g' = [g EXCEPT !.ret = opts.msg_size, !.wr = 0, !.intr = FALSE]
                    /\ m' = [m EXCEPT !.pc = "g_wchk"]
               ELSE /\ g' = [g EXCEPT !.wr = g.wr + c]
                    /\ m' = m
       \/ /\ g.intr
          /\ g' = [g EXCEPT !.ret = g.wr, !.wr = 0, !.intr = FALSE]
          /\ m' = [m EXCEPT !.pc = "g_wchk"]
          /\ toEng' = toEng
    /\ UNCHANGED <<opts, errmsg, galloc, engine_vars, w, ebuf, uring, toGen, efdval,
                   nonblock, stop, alarm, hist>>

\* The result of a read or write the generator goes on with:
\* ret == (ssize_t)g->msg_size.
AnyLength(ret) == ret > 0
FullLength(ret) == ret = opts.msg_size

\* if (*stop) break; if (ret != msg_size) { "Write failed"; break; }
g_wchk ==
    /\ m.pc = "g_wchk"
    /\ m' = [m EXCEPT !.pc = IF stop \/ ~FullLength(g.ret)
                             THEN "g_done" ELSE "g_read_call"]
    /\ g' = [g EXCEPT !.ret = 0]
    /\ UNCHANGED <<opts, errmsg, galloc, engine_vars, worker_vars, nonblock, stop, alarm,
                   hist>>

\* read(iogen_fds[fd], msgbuf, msg_size) is entered.
g_read_call ==
    /\ m.pc = "g_read_call"
    /\ m' = [m EXCEPT !.pc = "g_read"]
    /\ UNCHANGED <<opts, errmsg, galloc, engine_vars, worker_vars, nonblock, gen_vars,
                   hist>>

\* The blocking read returns what is there, at most msg_size bytes, or -1
\* when SIGALRM interrupts it.
g_read ==
    /\ m.pc = "g_read"
    /\ \/ /\ Len(toGen[g.fd]) > 0
          /\ LET n == Min(Len(toGen[g.fd]), opts.msg_size)
             IN /\ g' = [g EXCEPT !.ret = n, !.reply = SubSeq(toGen[g.fd], 1, n),
                                  !.intr = FALSE]
                /\ toGen' = [toGen EXCEPT ![g.fd] = DropFirst(@, n)]
                /\ hist' = IF n = opts.msg_size THEN [hist EXCEPT !.replies = @ + 1]
                                                ELSE hist
       \/ /\ g.intr
          /\ g' = [g EXCEPT !.ret = -1, !.intr = FALSE]
          /\ UNCHANGED <<toGen, hist>>
    /\ m' = [m EXCEPT !.pc = "g_rchk"]
    /\ UNCHANGED <<opts, errmsg, galloc, engine_vars, w, ebuf, uring, toEng, efdval,
                   nonblock, stop, alarm>>

\* if (*stop) break; if (ret != msg_size) { "Read failed"; break; }
g_rchk ==
    /\ m.pc = "g_rchk"
    /\ m' = [m EXCEPT !.pc = IF stop \/ ~FullLength(g.ret) THEN "g_done" ELSE "g_inc"]
    /\ g' = [g EXCEPT !.ret = 0, !.reply = <<>>]
    /\ UNCHANGED <<opts, errmsg, galloc, engine_vars, worker_vars, nonblock, stop,
                   alarm, hist>>

\* g->num_ios++; random_r(&g->random_buf, &r); fd = r % g->num_fds
g_inc ==
    /\ m.pc = "g_inc"
    /\ m' = [m EXCEPT !.pc = "g_while"]
    /\ \E r \in 1..opts.num_fds : g' = [g EXCEPT !.num_ios = @ + 1, !.fd = r]
    /\ UNCHANGED <<opts, errmsg, galloc, engine_vars, worker_vars, nonblock, stop,
                   alarm, hist>>

\* iogen_run returns; main calls alarm(0) and then destroy_engines.
g_done ==
    /\ m.pc = "g_done"
    /\ alarm' = FALSE
    /\ m' = [m EXCEPT !.pc = "destroy", !.k = 1, !.dir = "destroy_engines"]
    /\ UNCHANGED <<opts, errmsg, galloc, engine_vars, worker_vars, nonblock, g, stop,
                   hist>>

\* SIGALRM is delivered to the main thread: the handler sets the flag, and a
\* read or write the main thread is inside is interrupted.
sigalrm_handler ==
    /\ alarm
    /\ stop' = TRUE
    /\ alarm' = FALSE
    /\ g' = [g EXCEPT !.intr = m.pc \in {"g_write", "g_read"}]
    /\ UNCHANGED <<opts, m, errmsg, galloc, engine_vars, worker_vars, nonblock, hist>>

\* ------------------------------------------------------------ specification
Main ==
    \/ parse_options \/ iogen_init \/ socketpair \/ store_fds \/ create_engines \/ create \/ spawn \/ sem_wait \/ created
    \/ create_failed \/ unwind \/ cancel \/ pthread_join \/ destroy \/ destroyed
    \/ g_while \/ g_write_call \/ g_write \/ g_wchk \/ g_read_call \/ g_read
    \/ g_rchk \/ g_inc \/ g_done \/ iogen_cleanup

Workers ==
    \E k \in EngIds :
        \/ select_thread(k) \/ poll_thread(k) \/ epoll_thread(k) \/ io_uring_thread(k)
        \/ \E x \in 0..MaxFds : io_uring_complete(k, x)
        \/ \E t \in ThrIds :
             \/ copy_startup_fd(k, t) \/ sem_post(k, t) \/ enter_wait(k, t)
             \/ echo(k, t) \/ threads_fd_thread(k, t)

Next == Main \/ Workers \/ sigalrm_handler

Spec == Init /\ [][Next]_vars

\* ------------------------------------- io_uring_create, request by request
\* The registration part of io_uring_create, followed one
\* io_uring_add_poll_sqe at a time for up to MaxRingFds data descriptors: the
\* ring has IoUringEntries submission entries, so with more descriptors than
\* that io_uring_get_sqe finds the queue full.  Only the ring is followed.
RingOptions ==
    [engine : {"io_uring"}, num_engines : {1}, num_fds : 1..MaxRingFds,
     msg_size : {1}, exclusive : BOOLEAN, duration_secs : {30}]

\* io_uring_queue_init has returned; the loop over fds[] is about to start.
RingInit ==
    /\ opts \in RingOptions
    /\ m = [pc |-> "add_poll_sqe", k |-> 1, i |-> 0, dir |-> "", ret |-> "",
            argv |-> NoArgs, base |-> FirstFd]
    /\ InitRest

\* for (i = 0; i < num_fds; i++) io_uring_add_poll_sqe(pe, fds[i]);
io_uring_register_fd ==
    /\ m.pc = "add_poll_sqe"
    /\ m.i < opts.num_fds
    /\ \E ok \in SubmitOutcomes(uring[m.k]) :
         uring' = [uring EXCEPT ![m.k] = io_uring_add_poll_sqe(@, m.i + 1, ok)]
    /\ m' = [m EXCEPT !.i = @ + 1]
    /\ UNCHANGED <<opts, errmsg, galloc, engine_vars, w, ebuf, toEng, toGen, efdval,
                   nonblock, gen_vars, hist>>

\* The eventfd is created and io_uring_add_poll_sqe(pe, pe->efd) queues its
\* request.
io_uring_register_efd ==
    /\ m.pc = "add_poll_sqe"
    /\ m.i = opts.num_fds
    /\ \E ok \in SubmitOutcomes(uring[m.k]) :
         uring' = [uring EXCEPT ![m.k] = io_uring_add_poll_sqe(@, 0, ok)]
    /\ m' = [m EXCEPT !.pc = "io_uring_submit"]
    /\ UNCHANGED <<opts, errmsg, galloc, engine_vars, w, ebuf, toEng, toGen, efdval,
                   nonblock, gen_vars, hist>>

\* "Flush pending sqes to kernel": io_uring_submit; the instance goes on to
\* start its worker.
io_uring_flush ==
    /\ m.pc = "io_uring_submit"
    /\ uring' = [uring EXCEPT ![m.k] = io_uring_submit(@)]
    /\ est' = [est EXCEPT ![m.k] = "creating"]
    /\ m' = [m EXCEPT !.pc = "sem_init"]
    /\ UNCHANGED <<opts, errmsg, galloc, live, acq, rel, fdno, sem, startup_fd,
                   w, ebuf, toEng, toGen, efdval, nonblock, gen_vars, hist>>

RingNext == io_uring_register_fd \/ io_uring_register_efd \/ io_uring_flush

RingSpec == RingInit /\ [][RingNext]_vars

\* ----------------------------------------------- parse_options on its own
\* parse_options applied to every command line of CommandLines.
ParseInit ==
    /\ opts = DefaultOptions
    /\ \E a \in CommandLines :
          m = [pc |-> "parse_options", k |-> 0, i |-> 0, dir |-> "", ret |-> "",
               argv |-> a, base |-> FirstFd]
    /\ InitRest

ParseSpec == ParseInit /\ [][parse_options]_vars

\* Fair scheduling: the main thread and every worker thread that can take a
\* step eventually takes one, and the kernel eventually completes an armed
\* poll request whose descriptor is readable.  Nothing is assumed of the
\* delivery of SIGALRM.  Termination is explored for the configurations
\* whose sizes have a product of at most MaxFairLoad.
FairInit == Init /\ opts.num_engines * opts.num_fds * opts.msg_size <= MaxFairLoad

ThreadStep(k, t) ==
    \/ copy_startup_fd(k, t) \/ sem_post(k, t) \/ enter_wait(k, t) \/ echo(k, t)
    \/ threads_fd_thread(k, t)
    \/ (t = 1 /\ (select_thread(k) \/ poll_thread(k) \/ epoll_thread(k)
                  \/ io_uring_thread(k)))

KernelStep(k) == \E x \in 0..MaxFds : io_uring_complete(k, x)

FairSpec ==
    /\ FairInit
    /\ [][Next]_vars
    /\ WF_vars(Main)
    /\ \A k \in EngIds : WF_vars(KernelStep(k))
    /\ \A k \in EngIds : \A t \in ThrIds : WF_vars(ThreadStep(k, t))

\* ---------------------------------------------------------------- properties
\* A worker thread that has been started and has not yet terminated.
LiveThread(k, t) == w[k][t].pc \notin {"none", "exit"}

\* Instance k has given back memory or a descriptor of its own.
Released(k) == \E j \in 1..Len(rel[k]) : rel[k][j][1] # "thread"

DataFdsOpen ==
    \A i \in 1..opts.num_fds : <<"engine_fd", i>> \in galloc /\ <<"iogen_fd", i>> \in galloc

\* C1: the message buffer, the registration structure, the semaphore and the
\* control descriptor of an instance are released only after every worker
\* thread of the instance has terminated and been joined: no state has a
\* live worker thread of an instance that has released memory or descriptors.
C1_NoLiveWorkerAfterRelease ==
    \A k \in EngIds : Released(k) =>
        \A t \in ThrIds : ~LiveThread(k, t) /\ (w[k][t].pc = "exit" => w[k][t].joined)

\* destroy has released an instance whose worker had been serving.
C1_Witness ==
    \E k \in EngIds :
        /\ est[k] = "destroyed"
        /\ R("msgbuf") \in SeqToSet(rel[k])
        /\ \A t \in 1..NumThreads(opts) : w[k][t].waited /\ w[k][t].joined

\* C2: once destroy of an instance has returned, nothing the instance
\* acquired is still held, every resource create acquired has been released
\* exactly once, the descriptors open in the process are those open before
\* the instance was created, and the data descriptors are still open.
C2_DestroyRestores ==
    \A k \in EngIds :
        (est[k] = "destroyed" /\ m.pc = "destroyed" /\ m.k = k) =>
            /\ {x \in live : x[1] = k} = {}
            /\ NoDup(rel[k])
            /\ SeqToSet(rel[k]) = SeqToSet(acq[k])
            /\ DataFdsOpen
            /\ (\A j \in EngIds : est[j] \in {"none", "destroyed", "failed"}) =>
                 /\ OpenFds = {EngineFd(i) : i \in 1..opts.num_fds}
                              \cup {IogenFd(i) : i \in 1..opts.num_fds}
                 /\ live = {}

\* destroy of the last instance of a run that exchanged a message returned.
C2_Witness ==
    /\ m.pc = "destroyed"
    /\ \A j \in 1..opts.num_engines : est[j] = "destroyed"
    /\ opts.num_engines > 1
    /\ g.num_ios > 0

\* C3: once destroy has written the eventfd of a select, poll, epoll or
\* io_uring instance, under fair scheduling the worker eventually reads the
\* eventfd and returns, and destroy eventually returns, whatever is pending
\* on the data descriptors and whoever shares them.
C3_DestroyTerminates ==
    \A k \in EngIds :
        (est[k] = "destroying" /\ opts.engine # "threads")
            ~> (est[k] = "destroyed" /\ w[k][1].pc = "exit" /\ efdval[k] = 0)

\* destroy has written the eventfd of an instance that shares its data
\* descriptors with another one, while a generator message is unread.
C3_Witness ==
    /\ opts.engine # "threads"
    /\ opts.num_engines > 1
    /\ est[1] = "destroying"
    /\ efdval[1] > 0
    /\ \E i \in 1..opts.num_fds : toEng[i] # <<>>

\* The worker has posted the startup semaphore.
Posted(k, t) == w[k][t].pc \notin {"none", "start", "copied"}

\* The main thread is inside iogen_run.
GenPcs == {"g_while", "g_write_call", "g_write", "g_wchk", "g_read_call", "g_read",
           "g_rchk", "g_inc", "g_done"}

\* The generator is about to issue, or is inside, a write or a read.
GenIoPcs == {"g_write_call", "g_write", "g_read_call", "g_read"}

\* C4: create returns a handle only after every worker thread it spawned
\* has posted the startup semaphore (all num_fds workers for threads), and
\* the generator runs only after every worker of every instance has posted.
C4_ReadyAfterAllPosted ==
    /\ \A k \in EngIds : est[k] = "ready" =>
           \A t \in 1..NumThreads(opts) : Posted(k, t)
    /\ m.pc \in GenPcs =>
           \A k \in 1..opts.num_engines : \A t \in 1..NumThreads(opts) : Posted(k, t)

\* The generator starts with several instances of threads, all Ready.
C4_Witness ==
    /\ m.pc = "g_while"
    /\ hist.sent = 0
    /\ opts.engine = "threads"
    /\ opts.num_fds > 1
    /\ opts.num_engines > 1
    /\ \A k \in 1..opts.num_engines : est[k] = "ready"

C6_CreateFailureUnwinds ==
    m.pc = "create_failed" =>
        /\ est[m.k] = "failed"
        /\ errmsg # ""
        /\ rel[m.k] = Reverse(acq[m.k])
        /\ {x \in live : x[1] = m.k} = {}
        /\ \A t \in ThrIds : ~LiveThread(m.k, t)
        /\ DataFdsOpen

\* threads_create failed at a later pthread_create, after threads had started.
C6_Witness ==
    /\ m.pc = "create_failed"
    /\ Thread(1) \in SeqToSet(rel[m.k])
    /\ Len(rel[m.k]) > Len(threads_unwind)

C8_Original ==
    \A k \in EngIds : \A t \in ThrIds : w[k][t].pc = "echo" => w[k][t].n = opts.msg_size

\* C9 (as stated): with exclusive wakeups on epoll or io_uring and several
\* instances, the echoes written never outnumber the messages sent.
C9_Original ==
    (opts.exclusive /\ supports_exclusive(opts.engine) /\ opts.num_engines > 1) =>
        hist.echoes <= hist.sent

\* C10: the generator is closed-loop: at most one message is un-replied, a
\* new message is written only after the full reply to the previous one was
\* read, reads are from the channel last written to, and the channel changes
\* only once the reply is in.
C10_ClosedLoop ==
    /\ hist.sent - hist.replies \in {0, 1}
    /\ m.pc = "g_write_call" => hist.sent = hist.replies
    /\ m.pc \in {"g_read_call", "g_read"} => g.fd = g.last
    /\ (hist.sent > 0 /\ g.fd # g.last) => hist.sent = hist.replies
    /\ g.num_ios \in {hist.replies - 1, hist.replies}

\* The generator has moved to another channel after a full reply and waits
\* for the reply to its second message.
C10_Witness ==
    /\ m.pc = "g_read"
    /\ g.num_ios > 0
    /\ g.fd > 1
    /\ hist.sent = g.num_ios + 1

C12_Original ==
    [][stop => ~(/\ m.pc \in {"g_write_call", "g_read_call"}
                 /\ m'.pc \in {"g_write", "g_wchk", "g_read"})]_vars

C14_Original ==
    DataFdsOpen => \A i \in 1..opts.num_fds : nonblock[i]

\* The reply the generator has just read is the message it sent, whole.
FullEcho ==
    /\ m.pc = "g_rchk"
    /\ g.reply = [j \in 1..opts.msg_size |-> hist.sent]

\* C15 (as stated): with one engine instance, under fair scheduling, a
\* message the generator has written is eventually read back as msg_size
\* bytes identical to those sent, unless the stop flag is set first.
C15_Original ==
    (opts.num_engines = 1 /\ m.pc = "g_read_call" /\ ~stop) ~> (stop \/ FullEcho)

\* Instance k holds a control descriptor of its own: an eventfd that is no
\* data descriptor and no other instance's eventfd.
PrivateControlFd(k) ==
    /\ <<k, R("eventfd")>> \in live
    /\ fdno[k].eventfd \notin ({EngineFd(i) : i \in 1..opts.num_fds}
                               \cup {IogenFd(i) : i \in 1..opts.num_fds})
    /\ \A j \in EngIds \ {k} : <<j, R("eventfd")>> \in live =>
           fdno[j].eventfd # fdno[k].eventfd

\* C16 (as stated): for every backend a created instance has a private
\* control descriptor, and a worker ends only because destroy signalled that
\* descriptor, never by cancellation.
C16_Original ==
    \A k \in EngIds :
        /\ est[k] = "ready" => PrivateControlFd(k)
        /\ \A t \in ThrIds : w[k][t].pc = "exit" =>
               (~w[k][t].cancel /\ est[k] \in {"destroying", "destroyed"})

\* C17: a select, poll, epoll or io_uring worker that has read its eventfd
\* returns at once, without touching a data descriptor, also one that was
\* reported ready in the same wake-up; it does nothing afterwards; and it
\* stops for no other reason than a successful read of the eventfd.
C17_ControlReadReturns ==
    [][\A k \in EngIds : opts.engine # "threads" =>
          /\ (efdval[k] > 0 /\ efdval'[k] = 0) =>
                 (w'[k][1].pc = "exit" /\ toEng' = toEng /\ toGen' = toGen)
          /\ w[k][1].pc = "exit" => (w'[k][1].pc = "exit" /\ ebuf'[k] = ebuf[k])
          /\ (w[k][1].pc # "exit" /\ w'[k][1].pc = "exit") => efdval[k] > 0]_vars

\* A worker has returned while a message is still unread on a descriptor
\* only it serves.
C17_Witness ==
    /\ opts.engine # "threads"
    /\ opts.num_engines = 1
    /\ w[1][1].pc = "exit"
    /\ \E i \in 1..opts.num_fds : toEng[i] # <<>>

\* C18: every engine name the README lists (select, poll, epoll, io_uring,
\* threads) is accepted by --engine and selects the backend of that name,
\* and only other names are rejected.
C18_Original ==
    [][m.pc = "parse_options" =>
          /\ m.argv.engine \in EngineNames <=> m'.pc = "iogen_init"
          /\ m.argv.engine \in EngineNames => opts'.engine = m.argv.engine]_vars

\* C19: create always terminates: whatever fails, also the wait for the
\* start-up handshake after the workers were spawned, a create that has
\* been entered returns a handle or an error.
C19_Original == (m.pc = "create") ~> (m.pc \in {"created", "create_failed"})

\* C20: once the stop flag is set the generator eventually leaves its loop
\* and iogen_run returns, at whatever point of the loop the flag was set,
\* also after a check of the flag and before the blocking write or read
\* that follows it.
C20_Original == stop ~> (m.pc \notin GenPcs \ {"g_done"})

\* The poll requests a ring holds for descriptor x: queued for submission,
\* armed in the kernel, or completed and not yet consumed.
Watches(r, x) ==
    CopiesIn(x, BagOfSeq(r.sq)) + CopiesIn(x, r.armed) + CopiesIn(x, BagOfSeq(r.cq))

\* C21: in an io_uring instance every data descriptor, and the eventfd
\* until the worker has read it, has exactly one poll request that is
\* queued, armed or completed and not yet consumed.
C21_Original ==
    \A k \in EngIds :
        (opts.engine = "io_uring" /\ est[k] \in {"creating", "ready", "destroying"}) =>
            \A x \in 0..opts.num_fds :
                \/ x = 0 /\ w[k][1].pc = "exit"
                \/ Watches(uring[k], x) = 1

\* The error messages the create of the configured engine can return.
CreateErrors ==
    {CreatePlan(opts, 0)[j].err : j \in 1..Len(CreatePlan(opts, 0))}

\* The state that C22 requires once the create of some instance has failed.
C22_AfterFailure ==
    /\ m.pc = "destroy" => est[m.k] = "ready"
    /\ \A k \in EngIds : est[k] = "failed" =>
          /\ \A j \in 1..(k - 1) : est[j] \in {"ready", "destroying", "destroyed"}
          /\ \A j \in EngIds : j > k => est[j] = "none"
          /\ errmsg \in CreateErrors
          /\ m.pc \notin GenPcs /\ ~alarm /\ hist.sent = 0
          /\ m.pc \in {"err_iogen_cleanup", "exit_failure"} =>
                /\ \A j \in 1..(k - 1) : est[j] = "destroyed" /\ NoDup(rel[j])
                /\ live = {}
                /\ \A j \in EngIds : \A t \in ThrIds : ~LiveThread(j, t)

\* C22: if the create of the k-th instance fails, create_engines destroys
\* every instance created before it, each once and only while it is Ready,
\* leaves no instance or worker alive, hands main the message of the failed
\* create unchanged, and the generator is never started.
C22_AllOrNothing ==
    [][/\ C22_AfterFailure'
       /\ (\E k \in EngIds : est[k] = "failed") => errmsg' = errmsg]_vars

\* create_engines has returned NULL after the second create failed and the
\* first instance was destroyed.
C22_Witness ==
    /\ m.pc = "err_iogen_cleanup"
    /\ est[1] = "destroyed"
    /\ est[2] = "failed"

\* C23: when the generator's write or read has returned a length other
\* than msg_size, the check that follows ends the loop: the counter is not
\* incremented, nothing is written or read, and once the loop has ended the
\* generator sends and receives nothing more.
C23_ShortLengthEndsLoop ==
    [][/\ (m.pc \in {"g_wchk", "g_rchk"} /\ g.ret # opts.msg_size /\ m' # m) =>
             /\ m'.pc = "g_done"
             /\ g'.num_ios = g.num_ios
             /\ toEng' = toEng /\ toGen' = toGen
       /\ (hist.sent > 0 /\ m.pc \notin GenPcs \ {"g_done"}) =>
             /\ m'.pc \notin GenPcs \ {"g_done"}
             /\ hist'.sent = hist.sent /\ hist'.replies = hist.replies
             /\ g'.num_ios = g.num_ios]_vars

\* The loop has ended with the stop flag unset, after a reply shorter than
\* the message.
C23_Witness ==
    /\ m.pc = "g_done"
    /\ ~stop
    /\ hist.sent = g.num_ios + 1
    /\ hist.replies = g.num_ios

\* C24: whenever parse_options succeeds, the descriptor count, the message
\* size, the number of engine instances and the run duration it leaves in
\* struct options are all at least 1, whatever numeric arguments were given.
C24_Original ==
    m.pc = "iogen_init" =>
        /\ opts.num_fds >= 1
        /\ opts.msg_size >= 1
        /\ opts.num_engines >= 1
        /\ opts.duration_secs >= 1

\* C25: the select backend never runs with a descriptor numbered FD_SETSIZE
\* or higher: a data descriptor that high fails create before anything is
\* allocated, an eventfd that high fails create, which closes it and frees
\* what it allocated; in both cases no worker was spawned.
C25_FdSetLimit ==
    opts.engine = "select" =>
        /\ \A k \in EngIds : (w[k][1].pc # "none" \/ est[k] \in {"creating", "ready"}) =>
              /\ fdno[k].eventfd < FD_SETSIZE
              /\ \A i \in 1..opts.num_fds : EngineFd(i) < FD_SETSIZE
        /\ (m.pc = "create_failed" /\ ~opts.exclusive
              /\ \E i \in 1..opts.num_fds : EngineFd(i) >= FD_SETSIZE) =>
              /\ errmsg = "Maximum number of fds exceeded for select engine"
              /\ acq[m.k] = <<>> /\ rel[m.k] = <<>>
              /\ w[m.k][1].pc = "none"
        /\ (m.pc = "create_failed" /\ R("eventfd") \in SeqToSet(acq[m.k])
              /\ fdno[m.k].eventfd >= FD_SETSIZE) =>
              /\ errmsg = "Maximum number of fds exceeded by eventfd"
              /\ rel[m.k] = Reverse(acq[m.k])
              /\ {x \in live : x[1] = m.k} = {}
              /\ Thread(1) \notin SeqToSet(acq[m.k])
              /\ w[m.k][1].pc = "none"

\* The create of a second select instance failed because its eventfd got
\* the number FD_SETSIZE.
C25_Witness ==
    /\ opts.engine = "select"
    /\ m.pc = "create_failed"
    /\ m.k > 1
    /\ errmsg = "Maximum number of fds exceeded by eventfd"
    /\ fdno[m.k].eventfd >= FD_SETSIZE

\* The descriptors instance k holds of its own.
PrivateFds(k) == {x \in live : x[1] = k /\ x[2][1] \in FdKinds}

\* C26: the descriptors open in the process are never more than the two
\* ends of each of the num_fds channels plus one per live instance, and no
\* instance holds more than one descriptor of its own.
C26_Original ==
    /\ Cardinality(OpenFds) <=
           2 * opts.num_fds + Cardinality({k \in EngIds : \E x \in live : x[1] = k})
    /\ \A k \in EngIds : Cardinality(PrivateFds(k)) <= 1

\* C27: when socketpair fails for pair i, whatever i is, iogen_init returns
\* an error message with every pair created before closed and the arrays
\* and the buffer freed, and it never stores the descriptor values of the
\* failed call.
C27_Original ==
    /\ m.pc \notin {"store_fds", "abort"}
    /\ (m.pc = "exit_failure" /\ errmsg = "socketpair failed\n") =>
           /\ galloc = {}
           /\ \A i \in 1..(m.i + 1) : hist.closes[i] = 1

\* C28: in the threads backend worker i of an instance serves fds[i].  While
\* a worker has not yet copied startup_fd the slot still holds its
\* descriptor, a worker that has copied holds the descriptor of its own
\* index, and a finished threads_create has left every descriptor with a
\* worker; so no two workers of an instance hold the same descriptor.
C28_WorkerServesOwnFd ==
    opts.engine = "threads" =>
        \A k \in EngIds :
            /\ \A t \in ThrIds :
                /\ w[k][t].pc = "start" => startup_fd[k] = t
                /\ w[k][t].pc \in {"copied", "posted", "wait", "echo"} => w[k][t].fd = t
            /\ (est[k] = "ready" /\ <<k, Thread(1)>> \in live) =>
                   \A t \in 1..opts.num_fds : w[k][t].pc \notin {"none", "start"}
            /\ \A t, u \in ThrIds :
                   (t # u /\ LiveThread(k, t) /\ LiveThread(k, u)
                        /\ w[k][t].pc # "start" /\ w[k][u].pc # "start")
                   => w[k][t].fd # w[k][u].fd

C28_Witness ==
    /\ opts.engine = "threads"
    /\ opts.num_fds = 2
    /\ est[1] = "ready"
    /\ w[1][1].pc = "wait" /\ w[1][1].fd = 1
    /\ w[1][2].pc = "wait" /\ w[1][2].fd = 2

\* The workers whose data read returned bytes and whose echo of them is not
\* finished.
Echoing == {kt \in EngIds \X ThrIds : w[kt[1]][kt[2]].pc = "echo"}

\* C29: at most one worker of the whole system is between a data read that
\* returned bytes and the end of its echo; and while a thread of a threads
\* instance is echoing from the shared msgbuf no descriptor holds bytes that
\* another thread could read into it.
C29_Original ==
    /\ Cardinality(Echoing) <= 1
    /\ (opts.engine = "threads" /\ Echoing # {}) => \A x \in 1..MaxFds : toEng[x] = <<>>

====
